---- MODULE Spec2Model ----
(***************************************************************************)
(* A model of src/index.js: the LINE webhook chat relay.                   *)
(*                                                                         *)
(*   - the History Store (conversationHistory, getHistory, addToHistory,   *)
(*     clearHistory),                                                      *)
(*   - the Message Chunker (splitMessage),                                 *)
(*   - the Model Gateway (getChatResponse), the Event Dispatcher           *)
(*     (handleEvent) and the HTTP endpoint (app.post('/webhook')).         *)
(*                                                                         *)
(* A JavaScript string is modelled as the sequence of its UTF-16 code      *)
(* units; a code unit is written as a TLA+ string.  The remote clients     *)
(* (model.startChat / chat.sendMessage and lineClient.replyMessage) are    *)
(* opaque: each call either succeeds or fails, at any later time, and      *)
(* touches no state of this program.                                       *)
(***************************************************************************)
EXTENDS Integers, Sequences, FiniteSets, TLC

VARIABLES
    conversationHistory,  \* the Map of line 34: conversation id -> array of turns
    handlers,             \* the handleEvent invocations of the batch being served
    response,             \* what the webhook route has answered for that batch
    appended,             \* per id, the turns passed to addToHistory since the last clearHistory
    text,                 \* splitMessage: the argument text
    maxLength,            \* splitMessage: the argument maxLength
    remaining,            \* splitMessage: the local of line 196
    chunks,               \* splitMessage: the local of line 195 / the returned array
    spc                   \* splitMessage: position in the function body

vars == <<conversationHistory, handlers, response, appended,
          text, maxLength, remaining, chunks, spc>>

storeVars == <<conversationHistory, appended>>
serverVars == <<handlers, response>>
splitVars == <<text, maxLength, remaining, chunks, spc>>

-----------------------------------------------------------------------------
(* Bounds of the model *)

\* SpecAppend: addToHistory calls per conversation between two clearHistory calls
MaxAppends == 22
\* SpecSplit: longest text handed to splitMessage
MaxTextLen == 6
\* SpecSplit: largest maxLength handed to splitMessage
MaxSplitLength == 4
\* Spec: events in one webhook batch
MaxBatch == 2

-----------------------------------------------------------------------------
(* Program constants *)

\* line 37
MAX_HISTORY_LENGTH == 20

-----------------------------------------------------------------------------
(* Code units *)

\* '\n'
NL == "NL"
\* '。' (U+3002)
KUTEN == "KUTEN"
\* ' '
SP == "SP"

Min(a, b) == IF a <= b THEN a ELSE b

-----------------------------------------------------------------------------
(* History Store, lines 34-61 *)

ConvIds == {"G1", "U1"}

\* the object literal of line 50
Turn(role, content) == [role |-> role, parts |-> <<[text |-> content]>>]

\* the Map after getHistory(conversationId): lines 41-43
getHistoryStore(store, conversationId) ==
    IF conversationId \in DOMAIN store
    THEN store
    ELSE [k \in DOMAIN store \cup {conversationId} |->
             IF k = conversationId THEN <<>> ELSE store[k]]

\* the array getHistory(conversationId) returns: line 44
getHistory(store, conversationId) ==
    getHistoryStore(store, conversationId)[conversationId]

\* a splice that removes one turn too few
trim_OneTooFew(history) ==
    IF Len(history) > MAX_HISTORY_LENGTH
    THEN SubSeq(history, Len(history) - MAX_HISTORY_LENGTH, Len(history))
    ELSE history

\* history.splice(0, history.length - MAX_HISTORY_LENGTH), lines 53-55
trim(history) ==
    IF Len(history) > MAX_HISTORY_LENGTH
    THEN SubSeq(history, Len(history) - MAX_HISTORY_LENGTH + 1, Len(history))
    ELSE history

\* an addToHistory that evicts the newest turns instead of the oldest
addToHistory_EvictNewest(store, conversationId, role, content) ==
    LET s == getHistoryStore(store, conversationId)
        pushed == Append(s[conversationId], Turn(role, content))
    IN  [s EXCEPT ![conversationId] =
            SubSeq(pushed, 1, Min(Len(pushed), MAX_HISTORY_LENGTH))]

\* the Map after addToHistory(conversationId, role, content): lines 48-56
addToHistory(store, conversationId, role, content) ==
    LET s == getHistoryStore(store, conversationId)
        pushed == Append(s[conversationId], Turn(role, content))
    IN  [s EXCEPT ![conversationId] = trim(pushed)]

\* a clearHistory that leaves the Map as it is
clearHistory_Noop(store, conversationId) == store

\* a clearHistory that empties the array and keeps the entry
clearHistory_KeepsEntry(store, conversationId) ==
    [k \in DOMAIN store |-> IF k = conversationId THEN <<>> ELSE store[k]]

\* the Map after clearHistory(conversationId): lines 59-61
clearHistory(store, conversationId) ==
    [k \in DOMAIN store \ {conversationId} |-> store[k]]

\* the empty Map of line 34
EmptyStore == [k \in {} |-> <<>>]

-----------------------------------------------------------------------------
(* Message Chunker, lines 190-221 *)

\* String.prototype.lastIndexOf(searchString, position) for a one-unit
\* searchString: the greatest 0-based index i <= min(position, length-1)
\* with str[i] = ch, or -1
lastIndexOf(str, ch, position) ==
    LET hits == {i \in 0..Min(position, Len(str) - 1) : str[i + 1] = ch}
    IN  IF hits = {} THEN -1 ELSE CHOOSE i \in hits : \A j \in hits : j <= i

\* String.prototype.substring(start, end) with 0 <= start <= end
substring(str, start, end) ==
    SubSeq(str, Min(start, Len(str)) + 1, Min(end, Len(str)))

\* the test of lines 206, 209 and 212: breakPoint === -1 || breakPoint < maxLength / 2
unacceptable(breakPoint, maxLen) == breakPoint = -1 \/ 2 * breakPoint < maxLen

\* a chunker that knows newlines only and has no hard cut
findBreakPoint_NewlineOnly(rem, maxLen) == lastIndexOf(rem, NL, maxLen)

\* lines 205-214: the break point chosen for a remainder longer than maxLength
findBreakPoint(rem, maxLen) ==
    LET b1 == lastIndexOf(rem, NL, maxLen)
        b2 == IF unacceptable(b1, maxLen) THEN lastIndexOf(rem, KUTEN, maxLen) ELSE b1
        b3 == IF unacceptable(b2, maxLen) THEN lastIndexOf(rem, SP, maxLen) ELSE b2
    IN  IF unacceptable(b3, maxLen) THEN maxLen ELSE b3

\* line 216: the chunk cut off at breakPoint
chunkAt(rem, breakPoint) == substring(rem, 0, breakPoint + 1)

\* a remainder that skips the unit after the break point
restAfter_SkipsUnit(rem, breakPoint) == substring(rem, breakPoint + 2, Len(rem))

\* line 217: what remains after the cut at breakPoint
restAfter(rem, breakPoint) == substring(rem, breakPoint + 1, Len(rem))

\* the while loop of lines 198-218, from a given remainder and chunk list
RECURSIVE splitLoop(_, _, _)
splitLoop(rem, maxLen, acc) ==
    IF Len(rem) = 0 THEN acc
    ELSE IF Len(rem) <= maxLen THEN Append(acc, rem)
    ELSE LET breakPoint == findBreakPoint(rem, maxLen)
         IN  splitLoop(restAfter(rem, breakPoint), maxLen,
                       Append(acc, chunkAt(rem, breakPoint)))

\* splitMessage(text, maxLength), lines 190-221
splitMessage(t, maxLen) ==
    IF Len(t) <= maxLen THEN <<t>> ELSE splitLoop(t, maxLen, <<>>)

\* the concatenation of a list of strings
RECURSIVE join(_)
join(list) == IF list = <<>> THEN <<>> ELSE Head(list) \o join(Tail(list))

-----------------------------------------------------------------------------
(* Texts of the dispatcher, lines 135-181 *)

\* a fixed message of n code units, told apart by its first unit
FixedText(tag, n) == [i \in 1..n |-> IF i = 1 THEN tag ELSE "_"]

\* '/reset' and 'リセット', line 135
RESET_CMD == <<"/", "r", "e", "s", "e", "t">>
RESET_CMD_JA == <<"ri", "se", "xtu", "to">>
\* '/help' and 'ヘルプ', line 146
HELP_CMD == <<"/", "h", "e", "l", "p">>
HELP_CMD_JA == <<"he", "ru", "pu">>

\* the text of line 141 (30 code units)
RESET_REPLY == FixedText("reset-confirmation", 30)
\* the text of lines 151-156 (99 code units)
HELP_REPLY == FixedText("help", 99)
\* the text of line 179 (43 code units)
APOLOGY == FixedText("apology", 43)

\* line 166: the chunk size handed to splitMessage
CHUNK_LENGTH == 4500

\* a message that is no command
Hello == <<"h", "i">>
\* what the remote model may answer
Answers == {<<"o", "k">>}

-----------------------------------------------------------------------------
(* Events, section 6 of the spec and lines 119-132 *)

\* an absent property (undefined)
Undefined == [undefined |-> TRUE]
\* an absent id (undefined is falsy in line 130)
NoId == ""

\* the source of a message in the group G1, and of a direct message of user U1
InGroup == [groupId |-> "G1", roomId |-> NoId, userId |-> "U1"]
Direct == [groupId |-> NoId, roomId |-> NoId, userId |-> "U1"]

TextMessage(t, source) ==
    [type |-> "message", message |-> [type |-> "text", text |-> t], source |-> source]

\* plain text messages: an ordinary text and each command token
TextEvents ==
    {TextMessage(Hello, InGroup), TextMessage(Hello, Direct),
     TextMessage(RESET_CMD, InGroup), TextMessage(RESET_CMD_JA, Direct),
     TextMessage(HELP_CMD, Direct), TextMessage(HELP_CMD_JA, InGroup)}

\* events that are no plain text message
OtherEvents ==
    {[type |-> "message", message |-> [type |-> "image", text |-> <<>>],
      source |-> Direct],
     [type |-> "follow", message |-> Undefined, source |-> Direct]}

\* a message event without its message: reading event.message.type throws
MalformedEvents ==
    {[type |-> "message", message |-> Undefined, source |-> Direct]}

EventShapes == TextEvents \cup OtherEvents \cup MalformedEvents

\* req.body.events: the i-th event carries the reply token i
Batches ==
    UNION {[1..n -> EventShapes] : n \in 0..MaxBatch}

\* a conversation id that prefers the user id
conversationIdOf_UserFirst(event) ==
    IF event.source.userId # NoId THEN event.source.userId
    ELSE IF event.source.roomId # NoId THEN event.source.roomId
    ELSE event.source.groupId

\* lines 130-132
conversationIdOf(event) ==
    IF event.source.groupId # NoId THEN event.source.groupId
    ELSE IF event.source.roomId # NoId THEN event.source.roomId
    ELSE event.source.userId

\* a test that looks at the type of the event only
ignored_TypeOnly(event) ==
    event.type # "message"

\* the condition of line 123, defined when event.message is
ignored(event) ==
    event.type # "message" \/ event.message.type # "text"

\* line 123 throws a TypeError
throwsAt123(event) ==
    event.type = "message" /\ event.message = Undefined

isReset(userMessage) == userMessage = RESET_CMD_JA \/ userMessage = RESET_CMD
\* a help test that knows the ASCII token only
isHelp_AsciiOnly(userMessage) == userMessage = HELP_CMD

isHelp(userMessage) == userMessage = HELP_CMD_JA \/ userMessage = HELP_CMD

-----------------------------------------------------------------------------
(* handleEvent, lines 119-183, and getChatResponse, lines 67-95 *)

\* the argument of lineClient.replyMessage
ReplyCall(replyToken, texts) ==
    [replyToken |-> replyToken,
     messages |-> [i \in 1..Len(texts) |-> [type |-> "text", text |-> texts[i]]]]

\* no chat.sendMessage call is in flight
NoChat == [history |-> <<>>, message |-> <<>>]

\* one invocation of handleEvent, not yet run
NewHandler(event, replyToken) ==
    [event |-> event,
     replyToken |-> replyToken,
     pc |-> "start",
     conversationId |-> NoId, \* the local of line 130
     chat |-> NoChat,         \* the chat.sendMessage call in flight
     modelCalls |-> 0,        \* the chat.sendMessage calls this invocation issued
     replies |-> <<>>,        \* the replyMessage calls this invocation issued
     result |-> "pending",    \* what the promise of handleEvent settled with
     modelFailed |-> FALSE]   \* getChatResponse threw into the catch of line 172

\* a getChatResponse that records the user turn before it calls the model
chatStartStore_UserFirst(store, conversationId, userMessage) ==
    addToHistory(store, conversationId, "user", userMessage)

\* getChatResponse up to its await, lines 68-82: the Map after getHistory
chatStartStore(store, conversationId, userMessage) ==
    getHistoryStore(store, conversationId)

\* getChatResponse up to its await, lines 68-82: the call handed to the model
chatStart(store, conversationId, userMessage) ==
    [history |-> getHistory(store, conversationId),
     message |-> userMessage]

\* a getChatResponse that stores the exchange as the whole history
chatSuccessStore_Overwrites(store, conversationId, userMessage, assistantMessage) ==
    [k \in DOMAIN store \cup {conversationId} |->
        IF k = conversationId
        THEN <<Turn("user", userMessage), Turn("model", assistantMessage)>>
        ELSE store[k]]

\* a getChatResponse that records the model turn before the user turn
chatSuccessStore_ModelFirst(store, conversationId, userMessage, assistantMessage) ==
    addToHistory(addToHistory(store, conversationId, "model", assistantMessage),
                 conversationId, "user", userMessage)

\* getChatResponse after a successful call, lines 83-90: the Map
chatSuccessStore(store, conversationId, userMessage, assistantMessage) ==
    addToHistory(addToHistory(store, conversationId, "user", userMessage),
                 conversationId, "model", assistantMessage)

\* a getChatResponse that records the user turn of a failed call
chatFailureStore_KeepsUserTurn(store, conversationId, userMessage) ==
    addToHistory(store, conversationId, "user", userMessage)

\* getChatResponse after a failed call, lines 91-94: the Map
chatFailureStore(store, conversationId, userMessage) == store

\* handleEvent up to its first await or its return, lines 119-163: the Map
handleEventStartStore(store, h) ==
    IF throwsAt123(h.event) \/ ignored(h.event) THEN store
    ELSE IF isReset(h.event.message.text)
    THEN clearHistory(store, conversationIdOf(h.event))
    ELSE IF isHelp(h.event.message.text) THEN store
    ELSE chatStartStore(store, conversationIdOf(h.event), h.event.message.text)

\* handleEvent up to its first await or its return, lines 119-163: the invocation
handleEventStart(store, h) ==
    IF throwsAt123(h.event)
    THEN [h EXCEPT !.pc = "rejected", !.result = "TypeError"]
    ELSE IF ignored(h.event)
    THEN [h EXCEPT !.pc = "fulfilled", !.result = "null"]
    ELSE LET userMessage == h.event.message.text
             conversationId == conversationIdOf(h.event)
         IN  IF isReset(userMessage)
             THEN [h EXCEPT !.pc = "awaitReply",
                            !.conversationId = conversationId,
                            !.replies = <<ReplyCall(h.replyToken, <<RESET_REPLY>>)>>]
             ELSE IF isHelp(userMessage)
             THEN [h EXCEPT !.pc = "awaitReply",
                            !.conversationId = conversationId,
                            !.replies = <<ReplyCall(h.replyToken, <<HELP_REPLY>>)>>]
             ELSE [h EXCEPT !.pc = "awaitModel",
                            !.conversationId = conversationId,
                            !.modelCalls = @ + 1,
                            !.chat = chatStart(store, conversationId, userMessage)]

\* a handleEvent that sends the model's text as one message
handleEventAnswer_NoSplit(h, aiResponse) ==
    [h EXCEPT !.pc = "awaitReply",
              !.chat = NoChat,
              !.replies = Append(@, ReplyCall(h.replyToken, <<aiResponse>>))]

\* handleEvent after getChatResponse returned aiResponse, lines 163-171
handleEventAnswer(h, aiResponse) ==
    [h EXCEPT !.pc = "awaitReply",
              !.chat = NoChat,
              !.replies = Append(@, ReplyCall(h.replyToken,
                                              splitMessage(aiResponse, CHUNK_LENGTH)))]

\* a handleEvent without the try of line 161: the error leaves handleEvent
handleEventCatch_Rethrow(h) ==
    [h EXCEPT !.pc = "rejected",
              !.chat = NoChat,
              !.modelFailed = TRUE,
              !.result = "UpstreamError"]

\* handleEvent after getChatResponse threw, lines 172-181
handleEventCatch(h) ==
    [h EXCEPT !.pc = "awaitReply",
              !.chat = NoChat,
              !.modelFailed = TRUE,
              !.replies = Append(@, ReplyCall(h.replyToken, <<APOLOGY>>))]

\* a handleEvent that awaits its reply inside the try: a failed reply is
\* answered with the apology, once
handleEventReplyRejected_Apologises(h) ==
    IF Len(h.replies) = 1
    THEN [h EXCEPT !.replies = Append(@, ReplyCall(h.replyToken, <<APOLOGY>>))]
    ELSE [h EXCEPT !.pc = "rejected", !.result = "ReplyError"]

\* the promise lineClient.replyMessage returned is rejected: it is returned, not
\* awaited, in lines 137, 147, 168 and 175, so no catch applies and the promise
\* of handleEvent is rejected
handleEventReplyRejected(h) ==
    [h EXCEPT !.pc = "rejected", !.result = "ReplyError"]

settled(h) == h.pc \in {"fulfilled", "rejected"}

Pending == [status |-> "pending", body |-> <<>>]
Idle == [status |-> "idle", body |-> <<>>]

\* Promise.all(...).then(res.json).catch(res.status(500).end()), lines 102-107:
\* the answer once the promises hs are as given; nothing before map has returned
respond(hs, resp) ==
    IF resp # Pending \/ \E i \in DOMAIN hs : hs[i].pc = "start" THEN resp
    ELSE IF \E i \in DOMAIN hs : hs[i].pc = "rejected"
    THEN [status |-> "500", body |-> <<>>]
    ELSE IF \A i \in DOMAIN hs : hs[i].pc = "fulfilled"
    THEN [status |-> "200", body |-> [i \in DOMAIN hs |-> hs[i].result]]
    ELSE resp

\* the synchronous part of line 102 is still running
mapping == \E i \in DOMAIN handlers : handlers[i].pc = "start"

-----------------------------------------------------------------------------
(* The server *)

NoSplit ==
    /\ text = <<>>
    /\ maxLength = 1
    /\ remaining = <<>>
    /\ chunks = <<>>
    /\ spc = "off"

Init ==
    /\ conversationHistory = EmptyStore
    /\ handlers = <<>>
    /\ response = Idle
    /\ appended = [id \in ConvIds |-> <<>>]
    /\ NoSplit

\* POST /webhook, line 101: a batch arrives once the previous request is over
Webhook(events) ==
    /\ response = Idle
    /\ handlers' = [i \in DOMAIN events |-> NewHandler(events[i], i)]
    /\ response' = respond(handlers', Pending)
    /\ UNCHANGED <<conversationHistory, appended, splitVars>>

\* line 102, events.map(handleEvent): the next event in order is handled up to
\* its first await, before anything else runs
HandleEvent(i) ==
    /\ handlers[i].pc = "start"
    /\ \A j \in 1..(i - 1) : handlers[j].pc # "start"
    /\ conversationHistory' = handleEventStartStore(conversationHistory, handlers[i])
    /\ handlers' = [handlers EXCEPT ![i] = handleEventStart(conversationHistory, @)]
    /\ response' = respond(handlers', response)
    /\ UNCHANGED <<appended, splitVars>>

\* lines 82-90 and 163-171: the model call of invocation i succeeds with answer
ModelSucceeds(i, answer) ==
    /\ ~mapping
    /\ handlers[i].pc = "awaitModel"
    /\ conversationHistory' =
           chatSuccessStore(conversationHistory, handlers[i].conversationId,
                            handlers[i].chat.message, answer)
    /\ handlers' = [handlers EXCEPT ![i] = handleEventAnswer(@, answer)]
    /\ response' = respond(handlers', response)
    /\ UNCHANGED <<appended, splitVars>>

\* lines 91-94 and 172-181: the model call of invocation i fails
ModelFails(i) ==
    /\ ~mapping
    /\ handlers[i].pc = "awaitModel"
    /\ conversationHistory' =
           chatFailureStore(conversationHistory, handlers[i].conversationId,
                            handlers[i].chat.message)
    /\ handlers' = [handlers EXCEPT ![i] = handleEventCatch(@)]
    /\ response' = respond(handlers', response)
    /\ UNCHANGED <<appended, splitVars>>

\* the promise lineClient.replyMessage returned is fulfilled: so is handleEvent's
ReplySucceeds(i) ==
    /\ ~mapping
    /\ handlers[i].pc = "awaitReply"
    /\ handlers' = [handlers EXCEPT ![i] =
           [@ EXCEPT !.pc = "fulfilled", !.result = "replied"]]
    /\ response' = respond(handlers', response)
    /\ UNCHANGED <<conversationHistory, appended, splitVars>>

\* the promise lineClient.replyMessage returned is rejected
ReplyFails(i) ==
    /\ ~mapping
    /\ handlers[i].pc = "awaitReply"
    /\ handlers' = [handlers EXCEPT ![i] = handleEventReplyRejected(@)]
    /\ response' = respond(handlers', response)
    /\ UNCHANGED <<conversationHistory, appended, splitVars>>

\* the request is over: it is answered and every promise of line 102 is settled
Finish ==
    /\ response.status \in {"200", "500"}
    /\ \A i \in DOMAIN handlers : settled(handlers[i])
    /\ handlers' = <<>>
    /\ response' = Idle
    /\ UNCHANGED <<conversationHistory, appended, splitVars>>

Next ==
    \/ \E events \in Batches : Webhook(events)
    \/ \E i \in DOMAIN handlers : HandleEvent(i)
    \/ \E i \in DOMAIN handlers, answer \in Answers : ModelSucceeds(i, answer)
    \/ \E i \in DOMAIN handlers : ModelFails(i)
    \/ \E i \in DOMAIN handlers : ReplySucceeds(i)
    \/ \E i \in DOMAIN handlers : ReplyFails(i)
    \/ Finish

Spec == Init /\ [][Next]_vars

-----------------------------------------------------------------------------
(* The History Store alone: calls of addToHistory, getHistory and          *)
(* clearHistory on the Map, with the turns handed to addToHistory recorded *)

\* the n-th text handed to addToHistory for a conversation: texts are told
\* apart by their ordinal
Ordinal(n) == <<n>>

\* getChatResponse appends a user turn, then a model turn (lines 87-88)
roleOf(n) == IF n % 2 = 1 THEN "user" ELSE "model"

NoServer ==
    /\ handlers = <<>>
    /\ response = Idle

InitAppend ==
    /\ conversationHistory = EmptyStore
    /\ appended = [id \in ConvIds |-> <<>>]
    /\ NoServer
    /\ NoSplit

AddToHistoryCall(id) ==
    /\ Len(appended[id]) < MaxAppends
    /\ LET n == Len(appended[id]) + 1
       IN  /\ conversationHistory' =
                  addToHistory(conversationHistory, id, roleOf(n), Ordinal(n))
           /\ appended' = [appended EXCEPT ![id] = Append(@, Turn(roleOf(n), Ordinal(n)))]
    /\ UNCHANGED <<serverVars, splitVars>>

GetHistoryCall(id) ==
    /\ conversationHistory' = getHistoryStore(conversationHistory, id)
    /\ UNCHANGED <<appended, serverVars, splitVars>>

ClearHistoryCall(id) ==
    /\ conversationHistory' = clearHistory(conversationHistory, id)
    /\ appended' = [appended EXCEPT ![id] = <<>>]
    /\ UNCHANGED <<serverVars, splitVars>>

NextAppend ==
    \/ \E id \in ConvIds : AddToHistoryCall(id)
    \/ \E id \in ConvIds : GetHistoryCall(id)
    \/ \E id \in ConvIds : ClearHistoryCall(id)

SpecAppend == InitAppend /\ [][NextAppend]_vars

-----------------------------------------------------------------------------
(* splitMessage alone, statement by statement, on every short text *)

\* the code units of the texts: the three separators and an ordinary unit
Units == {NL, KUTEN, SP, "a"}

TextsUpTo(n) == UNION {[1..k -> Units] : k \in 0..n}

InitSplit ==
    /\ text \in TextsUpTo(MaxTextLen)
    /\ maxLength \in 1..MaxSplitLength
    /\ remaining = <<>>
    /\ chunks = <<>>
    /\ spc = "call"
    /\ conversationHistory = EmptyStore
    /\ appended = [id \in ConvIds |-> <<>>]
    /\ NoServer

\* lines 191-193
SplitFits ==
    /\ spc = "call"
    /\ Len(text) <= maxLength
    /\ chunks' = <<text>>
    /\ spc' = "returned"
    /\ UNCHANGED <<text, maxLength, remaining, storeVars, serverVars>>

\* lines 195-196
SplitBegin ==
    /\ spc = "call"
    /\ Len(text) > maxLength
    /\ chunks' = <<>>
    /\ remaining' = text
    /\ spc' = "loop"
    /\ UNCHANGED <<text, maxLength, storeVars, serverVars>>

\* lines 198-202: the remainder fits
SplitLast ==
    /\ spc = "loop"
    /\ Len(remaining) > 0
    /\ Len(remaining) <= maxLength
    /\ chunks' = Append(chunks, remaining)
    /\ spc' = "returned"
    /\ UNCHANGED <<text, maxLength, remaining, storeVars, serverVars>>

\* lines 198 and 204-217: one cut
SplitCut ==
    /\ spc = "loop"
    /\ Len(remaining) > maxLength
    /\ LET breakPoint == findBreakPoint(remaining, maxLength)
       IN  /\ chunks' = Append(chunks, chunkAt(remaining, breakPoint))
           /\ remaining' = restAfter(remaining, breakPoint)
    /\ UNCHANGED <<text, maxLength, spc, storeVars, serverVars>>

\* lines 198 and 220: nothing remains
SplitExit ==
    /\ spc = "loop"
    /\ Len(remaining) = 0
    /\ spc' = "returned"
    /\ UNCHANGED <<text, maxLength, remaining, chunks, storeVars, serverVars>>

NextSplit ==
    \/ SplitFits
    \/ SplitBegin
    \/ SplitLast
    \/ SplitCut
    \/ SplitExit

SpecSplit == InitSplit /\ [][NextSplit]_vars

-----------------------------------------------------------------------------
(* Properties *)

\* the turns stored for id: none when the Map has no entry
Turns(store, id) == IF id \in DOMAIN store THEN store[id] ELSE <<>>

\* the last n elements of a sequence
LastN(seq, n) == SubSeq(seq, Len(seq) - n + 1, Len(seq))

\* C1: in every reachable state of the server, whatever events arrived and
\* however their model calls and replies interleaved, every stored history has
\* at most MAX_HISTORY_LENGTH turns.
C1_HistoryBounded ==
    \A id \in DOMAIN conversationHistory :
        Len(conversationHistory[id]) <= MAX_HISTORY_LENGTH

\* an exchange was appended to a history that was already full: another
\* invocation for the same conversation still waits with the full history it
\* was seeded with before
C1_Witness ==
    \E i, j \in DOMAIN handlers :
        /\ i # j
        /\ handlers[i].conversationId = handlers[j].conversationId
        /\ handlers[j].pc = "awaitModel"
        /\ Len(handlers[j].chat.history) = MAX_HISTORY_LENGTH
        /\ handlers[i].pc = "awaitReply"
        /\ handlers[i].modelCalls = 1
        /\ ~handlers[i].modelFailed
        /\ Len(Turns(conversationHistory, handlers[i].conversationId)) = MAX_HISTORY_LENGTH

\* C2: after N calls of addToHistory for an id with no clearHistory in between,
\* the stored history has min(N, 20) turns and is exactly the last min(N, 20)
\* turns that were appended, in the order they were appended.
C2_LastTurnsKept ==
    \A id \in ConvIds :
        LET N == Len(appended[id])
        IN  N > 0 =>
              /\ id \in DOMAIN conversationHistory
              /\ Len(conversationHistory[id]) = Min(N, MAX_HISTORY_LENGTH)
              /\ conversationHistory[id] = LastN(appended[id], Min(N, MAX_HISTORY_LENGTH))

\* more turns were appended than the cap: the oldest two are gone
C2_Witness ==
    \E id \in ConvIds :
        /\ Len(appended[id]) = MAX_HISTORY_LENGTH + 2
        /\ id \in DOMAIN conversationHistory
        /\ conversationHistory[id][1] = appended[id][3]

\* C7: every chunk splitMessage(text, maxLength) produces has at most
\* maxLength code units.
C7_ChunksWithinMaxLength ==
    \A k \in DOMAIN chunks : Len(chunks[k]) <= maxLength

\* C8: the chunks splitMessage returns, concatenated in order, are the text;
\* during the loop the chunks so far followed by the remainder are the text;
\* the empty text yields the single chunk "".
C8_ChunksConcatenateToText ==
    /\ spc = "returned" => join(chunks) = text
    /\ spc = "loop" => join(chunks) \o remaining = text
    /\ (spc = "returned" /\ text = <<>>) => chunks = << <<>> >>

\* a text was cut three times, once right after a newline
C8_Witness ==
    /\ spc = "returned"
    /\ Len(chunks) >= 3
    /\ \E k \in 1..(Len(chunks) - 1) : chunks[k][Len(chunks[k])] = NL

\* C9: splitMessage returns exactly one chunk if and only if the text has at
\* most maxLength code units.
C9_SingleChunkIffFits ==
    spc = "returned" => (Len(chunks) = 1 <=> Len(text) <= maxLength)

\* the event is a plain text message whose text is one of the given texts
isTextEventIn(event, texts) ==
    /\ event.type = "message"
    /\ event.message # Undefined
    /\ event.message.type = "text"
    /\ event.message.text \in texts

\* the invocations present before and after a step
Both == DOMAIN handlers \cap DOMAIN handlers'

\* C3: a getChatResponse whose model call fails appends no turn: neither its
\* start (getHistory, startChat, sendMessage) nor its failure changes the turns
\* stored for any conversation, so the turns of its conversation are those the
\* call was seeded with unless another invocation changed them meanwhile; and
\* the error reaches the catch of the caller.
C3_FailedCallAppendsNothing ==
    [][\A i \in Both :
          /\ (handlers[i].pc = "start" /\ handlers'[i].pc = "awaitModel") =>
                \A id \in ConvIds :
                    Turns(conversationHistory', id) = Turns(conversationHistory, id)
          /\ (handlers[i].pc = "awaitModel" /\ handlers'[i].modelFailed) =>
                /\ \A id \in ConvIds :
                       Turns(conversationHistory', id) = Turns(conversationHistory, id)
                /\ DOMAIN conversationHistory' = DOMAIN conversationHistory
                /\ Turns(conversationHistory, handlers[i].conversationId)
                       = handlers[i].chat.history
                     => Turns(conversationHistory', handlers[i].conversationId)
                            = handlers[i].chat.history
                /\ handlers'[i].pc # "awaitModel"
                /\ handlers'[i].replies # <<>>
      ]_vars

\* a model call failed for a conversation that holds turns
C3_Witness ==
    \E i \in DOMAIN handlers :
        /\ handlers[i].modelFailed
        /\ handlers[i].pc = "awaitReply"
        /\ Len(Turns(conversationHistory, handlers[i].conversationId)) >= 2

\* C4: an invocation whose model call failed has sent exactly one reply, the
\* apology alone, with its own reply token; its promise is rejected only if
\* that reply failed, and fulfilled otherwise; the webhook answers 500 only
\* when some promise was rejected by a failed reply or a malformed event, so a
\* batch without those is answered 200 once all its events are handled.
C4_ModelFailureApologises ==
    /\ \A i \in DOMAIN handlers :
           handlers[i].modelFailed =>
               /\ handlers[i].replies =
                      <<ReplyCall(handlers[i].replyToken, <<APOLOGY>>)>>
               /\ handlers[i].pc \in {"awaitReply", "fulfilled", "rejected"}
               /\ handlers[i].pc = "rejected" => handlers[i].result = "ReplyError"
               /\ handlers[i].pc = "fulfilled" => handlers[i].result = "replied"
    /\ response.status = "500" =>
           \E i \in DOMAIN handlers :
               /\ handlers[i].pc = "rejected"
               /\ handlers[i].result \in {"TypeError", "ReplyError"}
    /\ (/\ handlers # <<>>
        /\ \A i \in DOMAIN handlers :
               settled(handlers[i]) /\ handlers[i].result \notin {"TypeError", "ReplyError"})
         => response.status = "200"

\* a model call failed, the apology was delivered, another event of the batch
\* was answered by the model, and the webhook answered 200
C4_Witness ==
    \E i, j \in DOMAIN handlers :
        /\ handlers[i].modelFailed
        /\ handlers[i].pc = "fulfilled"
        /\ handlers[j].modelCalls = 1
        /\ ~handlers[j].modelFailed
        /\ handlers[j].pc = "fulfilled"
        /\ response.status = "200"

\* C5: no step of an invocation for a reset command or a help command starts a
\* model call, and no step of an invocation for a help command changes the
\* History Store (neither a history nor the set of stored ids).
C5_CommandsCallNoModel ==
    [][\A i \in Both :
          handlers'[i] # handlers[i] =>
              /\ isTextEventIn(handlers[i].event,
                               {RESET_CMD, RESET_CMD_JA, HELP_CMD, HELP_CMD_JA}) =>
                     /\ handlers'[i].modelCalls = 0
                     /\ handlers'[i].chat = NoChat
                     /\ handlers'[i].pc # "awaitModel"
              /\ isTextEventIn(handlers[i].event, {HELP_CMD, HELP_CMD_JA}) =>
                     conversationHistory' = conversationHistory
      ]_vars

\* a help command and a reset command were handled to the end while a history
\* held turns
C5_Witness ==
    /\ \E id \in DOMAIN conversationHistory : Len(conversationHistory[id]) >= 2
    /\ \E i \in DOMAIN handlers :
           /\ isTextEventIn(handlers[i].event, {HELP_CMD, HELP_CMD_JA})
           /\ handlers[i].pc = "fulfilled"
    /\ \E i \in DOMAIN handlers :
           /\ isTextEventIn(handlers[i].event, {RESET_CMD, RESET_CMD_JA})
           /\ handlers[i].pc = "fulfilled"

\* C6: the step that handles a reset command for conversation c leaves the Map
\* without an entry for c, with the reset confirmation as the one reply issued,
\* and leaves every other conversation as it was; getHistory(c) on that Map
\* returns the empty history.
C6_ResetRemovesEntry ==
    [][\A i \in Both :
          (/\ handlers[i].pc = "start"
           /\ handlers'[i].pc # "start"
           /\ isTextEventIn(handlers[i].event, {RESET_CMD, RESET_CMD_JA})) =>
              LET c == conversationIdOf(handlers[i].event)
              IN  /\ c \notin DOMAIN conversationHistory'
                  /\ getHistory(conversationHistory', c) = <<>>
                  /\ \A id \in ConvIds \ {c} :
                         /\ id \in DOMAIN conversationHistory' <=>
                                id \in DOMAIN conversationHistory
                         /\ Turns(conversationHistory', id) = Turns(conversationHistory, id)
                  /\ handlers'[i].pc = "awaitReply"
                  /\ handlers'[i].replies =
                         <<ReplyCall(handlers[i].replyToken, <<RESET_REPLY>>)>>
      ]_vars

\* a reset was handled right after an event of the same batch had read a
\* history with turns for the same conversation: the entry is gone
C6_Witness ==
    \E i, j \in DOMAIN handlers :
        /\ i < j
        /\ handlers[i].pc = "awaitModel"
        /\ Len(handlers[i].chat.history) >= 2
        /\ isTextEventIn(handlers[j].event, {RESET_CMD, RESET_CMD_JA})
        /\ handlers[j].pc = "awaitReply"
        /\ handlers[j].conversationId = handlers[i].conversationId
        /\ handlers[j].conversationId \notin DOMAIN conversationHistory

\* C10: the webhook has answered only when the handling of every event of the
\* batch is over: 200 with the results when every promise was fulfilled, 500
\* when one was rejected, and in both cases no invocation is still running.
C10_JoinBeforeResponding ==
    response.status \in {"200", "500"} =>
        /\ \A i \in DOMAIN handlers : settled(handlers[i])
        /\ response.status = "200" =>
               /\ \A i \in DOMAIN handlers : handlers[i].pc = "fulfilled"
               /\ response.body = [i \in DOMAIN handlers |-> handlers[i].result]
        /\ response.status = "500" =>
               \E i \in DOMAIN handlers : handlers[i].pc = "rejected"

-----------------------------------------------------------------------------
(* One request on a store left by earlier requests: events of several       *)
(* sources, turns of earlier exchanges told apart from the new ones         *)

\* the text and the answer of the exchanges of earlier requests
Old == <<"o", "l", "d">>
OldAnswer == <<"f", "i", "n", "e">>

\* a second message that is no command
Hey == <<"h", "e", "y">>

\* the history after k earlier exchanges (k at most MAX_HISTORY_LENGTH / 2)
OldHistory(k) ==
    [n \in 1..(2 * k) |->
        IF n % 2 = 1 THEN Turn("user", Old) ELSE Turn("model", OldAnswer)]

\* the conversation ids of the request's events
RequestConvIds == {"G1", "R1", "U1"}

\* the Map before the request: empty, or every conversation after one earlier
\* exchange, or every conversation after ten (a full history)
RequestStores ==
    {EmptyStore} \cup
    {[id \in RequestConvIds |-> OldHistory(k)] : k \in {1, MAX_HISTORY_LENGTH \div 2}}

\* sources: another user of the group G1, a user in the room R1, and a source
\* that carries a group id and a room id
InGroupOther == [groupId |-> "G1", roomId |-> NoId, userId |-> "U2"]
InRoom == [groupId |-> NoId, roomId |-> "R1", userId |-> "U1"]
GroupAndRoom == [groupId |-> "G1", roomId |-> "R1", userId |-> "U1"]

RequestShapes ==
    {TextMessage(Hello, InGroup), TextMessage(Hey, InGroupOther),
     TextMessage(Hello, InRoom), TextMessage(Hey, GroupAndRoom),
     TextMessage(Hello, Direct),
     TextMessage(RESET_CMD, InGroupOther), TextMessage(RESET_CMD_JA, InRoom)}
    \cup OtherEvents

RequestBatches ==
    UNION {[1..n -> RequestShapes] : n \in 1..MaxBatch}

InitRequest ==
    /\ conversationHistory \in RequestStores
    /\ handlers = <<>>
    /\ response = Idle
    /\ appended = [id \in ConvIds |-> <<>>]
    /\ NoSplit

NextRequest ==
    \/ \E events \in RequestBatches : Webhook(events)
    \/ \E i \in DOMAIN handlers : HandleEvent(i)
    \/ \E i \in DOMAIN handlers, answer \in Answers : ModelSucceeds(i, answer)
    \/ \E i \in DOMAIN handlers : ModelFails(i)
    \/ \E i \in DOMAIN handlers : ReplySucceeds(i)
    \/ \E i \in DOMAIN handlers : ReplyFails(i)

SpecRequest == InitRequest /\ [][NextRequest]_vars

-----------------------------------------------------------------------------
(* Properties of one request *)

\* the invocation's model call was answered by the model
answered(h) == h.modelCalls = 1 /\ h.pc # "awaitModel" /\ ~h.modelFailed

\* C11: a getChatResponse whose model call succeeds with a appends nothing
\* when it starts, and the step in which it returns a leaves the history of its
\* conversation ending with the user turn of its text followed by the model
\* turn of a, after the turns that were there (the oldest evicted at the cap);
\* a is what handleEvent then sends.
C11_SuccessAppendsExchangeAtReturn ==
    [][\A i \in Both :
          /\ (handlers[i].pc = "start" /\ handlers'[i].pc = "awaitModel") =>
                \A id \in RequestConvIds :
                    Turns(conversationHistory', id) = Turns(conversationHistory, id)
          /\ (handlers[i].pc = "awaitModel" /\ answered(handlers'[i])) =>
                \E a \in Answers :
                    LET c == handlers[i].conversationId
                        before == Turns(conversationHistory, c)
                        after == Turns(conversationHistory', c)
                        exchange == <<Turn("user", handlers[i].chat.message),
                                      Turn("model", a)>>
                    IN  /\ Len(after) >= 2
                        /\ LastN(after, 2) = exchange
                        /\ after = LastN(before \o exchange,
                                         Min(Len(before) + 2, MAX_HISTORY_LENGTH))
                        /\ handlers'[i].replies =
                               <<ReplyCall(handlers[i].replyToken,
                                           splitMessage(a, CHUNK_LENGTH))>>
      ]_vars

\* a call returned for a conversation whose history was full of earlier turns
C11_Witness ==
    \E i \in DOMAIN handlers :
        /\ answered(handlers[i])
        /\ handlers[i].event.message.text = Hey
        /\ LET h == Turns(conversationHistory, handlers[i].conversationId)
           IN  /\ Len(h) = MAX_HISTORY_LENGTH
               /\ h[Len(h) - 1] = Turn("user", Hey)
               /\ h[Len(h) - 2] = Turn("model", OldAnswer)

\* the event is not a plain text message: another event type, or a message of
\* another type
notPlainText(event) ==
    \/ event.type # "message"
    \/ event.message # Undefined /\ event.message.type # "text"

\* C12: handling an event that is not a plain text message (event.type other
\* than "message", or message.type other than "text") yields null and has no
\* effect: the step that handles it leaves the History Store as it was, and the
\* invocation never issues a model call or a reply.
C12_OtherEventsIgnored ==
    [][\A i \in Both :
          notPlainText(handlers[i].event) =>
              /\ handlers'[i].modelCalls = 0
              /\ handlers'[i].chat = NoChat
              /\ handlers'[i].replies = <<>>
              /\ handlers'[i].pc \in {"start", "fulfilled"}
              /\ (handlers[i].pc = "start" /\ handlers'[i].pc # "start") =>
                     /\ handlers'[i].pc = "fulfilled"
                     /\ handlers'[i].result = "null"
                     /\ conversationHistory' = conversationHistory
      ]_vars

\* a message that is no text and an event that is no message were both handled
\* in a request that found a full history for their source
C12_Witness ==
    /\ Len(Turns(conversationHistory, "U1")) = MAX_HISTORY_LENGTH
    /\ \E i, j \in DOMAIN handlers :
           /\ handlers[i].event.type # "message"
           /\ handlers[j].event.type = "message"
           /\ handlers[j].event.message.type # "text"
           /\ handlers[i].result = "null"
           /\ handlers[j].result = "null"
           /\ response.status = "200"

\* c is the id the precedence group > room > user gives for the source
byPrecedence(c, source) ==
    /\ source.groupId # NoId => c = source.groupId
    /\ (source.groupId = NoId /\ source.roomId # NoId) => c = source.roomId
    /\ (source.groupId = NoId /\ source.roomId = NoId) => c = source.userId

\* every id a source of the request carries
SourceIds == RequestConvIds \cup {"U2"}

\* C13: every step of an invocation for a text event leaves the histories of
\* all ids other than the one the precedence group > room > user gives as they
\* were, the id the invocation works with is that one, and a model call is
\* seeded with the history stored under it; so two invocations for users of one
\* group work with the same id, and an event with groupId "G1" calls the model
\* for conversation "G1".
C13_ConversationIdByPrecedence ==
    [][\A i \in Both :
          (handlers'[i] # handlers[i] /\ ~notPlainText(handlers[i].event)) =>
              LET source == handlers[i].event.source
              IN  /\ byPrecedence(handlers'[i].conversationId, source)
                  /\ \A id \in SourceIds :
                         ~byPrecedence(id, source) =>
                             /\ id \in DOMAIN conversationHistory' <=>
                                    id \in DOMAIN conversationHistory
                             /\ Turns(conversationHistory', id)
                                    = Turns(conversationHistory, id)
                  /\ handlers'[i].pc = "awaitModel" =>
                         \E c \in SourceIds :
                             /\ byPrecedence(c, source)
                             /\ handlers'[i].chat.history = Turns(conversationHistory, c)
                             /\ c \in DOMAIN conversationHistory'
                  /\ (handlers'[i].pc = "awaitModel" /\ source.groupId = "G1") =>
                         handlers'[i].conversationId = "G1"
                  /\ \A j \in Both :
                         (/\ handlers[j].pc # "start"
                          /\ ~notPlainText(handlers[j].event)
                          /\ handlers[j].event.source.groupId # NoId
                          /\ handlers[j].event.source.groupId = source.groupId) =>
                             handlers'[j].conversationId = handlers'[i].conversationId
      ]_vars

\* the events of two users of the group G1 were both answered: the one history
\* of G1 holds both exchanges and no user has a history
C13_Witness ==
    \E i, j \in DOMAIN handlers :
        /\ handlers[i].event.source.userId = "U1"
        /\ handlers[j].event.source.userId = "U2"
        /\ answered(handlers[i])
        /\ answered(handlers[j])
        /\ handlers[i].event.source.groupId = "G1"
        /\ handlers[j].event.source.groupId = "G1"
        /\ DOMAIN conversationHistory = {"G1"}
        /\ Len(conversationHistory["G1"]) = 4

-----------------------------------------------------------------------------
(* One event whose model call returns a long text *)

\* the comment of line 165: the per-message limit of the platform
LINE_TEXT_LIMIT == 5000

\* a text of n code units: the units seps gives at its positions (1-based),
\* ordinary units elsewhere
Filled(n, seps) == [i \in 1..n |-> IF i \in DOMAIN seps THEN seps[i] ELSE "a"]

\* no separator
Plain == [i \in {} |-> NL]

\* what the remote model may answer: nothing, a short text, texts around the
\* chunk size without a separator, texts of several chunks, and texts with a
\* newline, a '。' or a space at the chunk size, at its half and below its half
LongAnswers ==
    {<<>>,
     <<"o", "k">>,
     Filled(CHUNK_LENGTH, Plain),
     Filled(CHUNK_LENGTH + 1, Plain),
     Filled(CHUNK_LENGTH + 2, Plain),
     Filled(LINE_TEXT_LIMIT + 1, Plain),
     Filled(2 * CHUNK_LENGTH + 3, Plain),
     Filled(LINE_TEXT_LIMIT, [i \in {CHUNK_LENGTH + 1} |-> NL]),
     Filled(LINE_TEXT_LIMIT, [i \in {CHUNK_LENGTH \div 2 + 1} |-> KUTEN]),
     Filled(LINE_TEXT_LIMIT, [i \in {CHUNK_LENGTH \div 2, 3000} |->
                                 IF i = 3000 THEN SP ELSE NL]),
     Filled(2 * LINE_TEXT_LIMIT, [i \in {100 * k : k \in 1..100} |-> NL])}

AnswerShapes ==
    {TextMessage(Hello, Direct), TextMessage(Hello, InGroup),
     TextMessage(Hello, InRoom),
     TextMessage(RESET_CMD, Direct), TextMessage(HELP_CMD, Direct)}

NextAnswer ==
    \/ \E event \in AnswerShapes : Webhook(<<event>>)
    \/ \E i \in DOMAIN handlers : HandleEvent(i)
    \/ \E i \in DOMAIN handlers, answer \in LongAnswers : ModelSucceeds(i, answer)
    \/ \E i \in DOMAIN handlers : ModelFails(i)
    \/ \E i \in DOMAIN handlers : ReplySucceeds(i)
    \/ \E i \in DOMAIN handlers : ReplyFails(i)

SpecAnswer == Init /\ [][NextAnswer]_vars

\* the text the model returned to an answered invocation: the model turn its
\* getChatResponse appended last
answerOf(h) ==
    LET turns == Turns(conversationHistory, h.conversationId)
    IN  turns[Len(turns)].parts[1].text

\* C14: the reply for an answered text event carries one text message per chunk
\* of splitMessage(output, 4500), in chunk order, and it is the one reply of
\* the invocation; the text of every message of every reply (answer, apology,
\* reset confirmation, help) has at most 5000 code units.
C14_RepliesChunkedWithinLimit ==
    \A i \in DOMAIN handlers :
        /\ \A r \in DOMAIN handlers[i].replies :
               \A m \in DOMAIN handlers[i].replies[r].messages :
                   /\ handlers[i].replies[r].messages[m].type = "text"
                   /\ Len(handlers[i].replies[r].messages[m].text) <= 5000
        /\ answered(handlers[i]) =>
               LET out == splitMessage(answerOf(handlers[i]), 4500)
               IN  /\ Len(handlers[i].replies) = 1
                   /\ handlers[i].replies[1].replyToken = handlers[i].replyToken
                   /\ Len(handlers[i].replies[1].messages) = Len(out)
                   /\ \A k \in DOMAIN out :
                          handlers[i].replies[1].messages[k].text = out[k]

\* an answer of three chunks was sent, its first message longer than 4500
C14_Witness ==
    \E i \in DOMAIN handlers :
        /\ answered(handlers[i])
        /\ handlers[i].pc = "fulfilled"
        /\ Len(handlers[i].replies[1].messages) = 3
        /\ Len(handlers[i].replies[1].messages[1].text) > 4500

-----------------------------------------------------------------------------
(* Properties of the loop of splitMessage *)

\* the index is one the loop accepts: found, and at least maxLen / 2
acceptableAt(index, maxLen) == index # -1 /\ 2 * index >= maxLen

\* the number of code units of the chunk cut from a remainder longer than
\* maxLen: up to and including the last acceptable newline, else '。', else
\* space, else maxLen units
cutLength(rem, maxLen) ==
    LET nl == lastIndexOf(rem, NL, maxLen)
        ku == lastIndexOf(rem, KUTEN, maxLen)
        sp == lastIndexOf(rem, SP, maxLen)
    IN  IF acceptableAt(nl, maxLen) THEN nl + 1
        ELSE IF acceptableAt(ku, maxLen) THEN ku + 1
        ELSE IF acceptableAt(sp, maxLen) THEN sp + 1
        ELSE maxLen

\* C15: a cut of a remainder longer than maxLength takes the chunk that ends
\* right after the last newline at index <= maxLength when that index is at
\* least maxLength / 2, otherwise right after the last '。' under the same
\* conditions, otherwise right after the last space under the same conditions,
\* otherwise the first maxLength code units; what follows the chunk remains.
C15_CutsAtBoundaries ==
    [][(spc = "loop" /\ Len(remaining) > maxLength /\ chunks' # chunks) =>
          LET n == cutLength(remaining, maxLength)
          IN  /\ chunks' = Append(chunks, SubSeq(remaining, 1, n))
              /\ remaining' = SubSeq(remaining, n + 1, Len(remaining))
      ]_vars

\* splitMessage run to its end: a call that can take a step takes it
SpecSplitFair == SpecSplit /\ WF_vars(NextSplit)

\* the code units of the text not yet emitted as a chunk
unemitted == Len(text) - Len(join(chunks))

\* C16: the loop of splitMessage terminates for every text and every
\* maxLength >= 1: every iteration emits a chunk of at least one code unit of
\* what is left of the text, a cut shortens the remainder by at least one code
\* unit, the loop is left only when nothing of the text is left to emit, the
\* call returns, and no chunk of a text longer than maxLength is empty.
C16_LoopTerminates ==
    /\ [][spc = "loop" =>
             /\ chunks' # chunks =>
                    /\ Len(chunks') = Len(chunks) + 1
                    /\ chunks'[Len(chunks')] # <<>>
                    /\ unemitted' < unemitted
                    /\ unemitted' >= 0
             /\ remaining' # remaining => Len(remaining') < Len(remaining)
             /\ spc' = "returned" => unemitted' = 0
       ]_vars
    /\ [](maxLength >= 1)
    /\ []((spc = "returned" /\ Len(text) > maxLength) =>
              \A k \in DOMAIN chunks : chunks[k] # <<>>)
    /\ <>(spc = "returned")

\* a call returned after three cuts that left nothing of the text
C16_Witness ==
    /\ spc = "returned"
    /\ Len(text) > maxLength
    /\ Len(chunks) = 3
    /\ remaining = <<>>

-----------------------------------------------------------------------------
(* Properties of concurrent invocations *)

\* the invocations of the request whose model call for conversation c succeeded
answeredFor(c) ==
    {i \in DOMAIN handlers : answered(handlers[i]) /\ handlers[i].conversationId = c}

\* C17: when the model calls of several text events of one conversation
\* overlap and succeed, in whatever order they complete, no turn is lost or
\* overwritten: the history ends with the user turn and the model turn of each
\* of these exchanges, exchange after exchange in some order, and what precedes
\* them are turns that were stored before.
C17_ConcurrentExchangesKept ==
    \A c \in RequestConvIds :
        LET done == answeredFor(c)
            n == Cardinality(done)
            h == Turns(conversationHistory, c)
        IN  n >= 1 =>
              /\ Len(h) >= 2 * n
              /\ \E order \in [1..n -> done] :
                     /\ \A k, l \in 1..n : order[k] = order[l] => k = l
                     /\ \A k \in 1..n :
                            /\ LastN(h, 2 * n)[2 * k - 1] =
                                   Turn("user", handlers[order[k]].event.message.text)
                            /\ LastN(h, 2 * n)[2 * k] \in
                                   {Turn("model", a) : a \in Answers}
              /\ \A p \in 1..(Len(h) - 2 * n) :
                     h[p] \in {Turn("user", Old), Turn("model", OldAnswer)}

\* two events of two users of one group were answered, the second sent first,
\* on a history that was full: four of the old turns were evicted
C17_Witness ==
    \E i, j \in DOMAIN handlers :
        /\ i < j
        /\ answered(handlers[i])
        /\ answered(handlers[j])
        /\ handlers[i].conversationId = handlers[j].conversationId
        /\ handlers[i].event.message.text # handlers[j].event.message.text
        /\ LET h == Turns(conversationHistory, handlers[i].conversationId)
           IN  /\ Len(h) = MAX_HISTORY_LENGTH
               /\ h[Len(h) - 1].parts[1].text = handlers[i].event.message.text
               /\ h[Len(h) - 3].parts[1].text = handlers[j].event.message.text
               /\ h[Len(h) - 4] = Turn("model", OldAnswer)

\* the exchanges a history of the request can hold: those of earlier requests
\* and those of the request's own text events
Exchanges ==
    {<<Turn("user", Old), Turn("model", OldAnswer)>>}
    \cup {<<Turn("user", t), Turn("model", a)>> : t \in {Hello, Hey}, a \in Answers}

\* C18: in every reachable state, whatever the interleaving, every stored
\* history has even length and is a sequence of exchanges: a user turn at every
\* odd position, immediately followed by the model turn of the same exchange;
\* also after eviction at the cap and after a reset handled while model calls
\* are in flight.
C18_HistoriesAlternate ==
    \A id \in DOMAIN conversationHistory :
        LET h == conversationHistory[id]
        IN  /\ Len(h) % 2 = 0
            /\ \A p \in 1..Len(h) :
                   /\ h[p].role = (IF p % 2 = 1 THEN "user" ELSE "model")
                   /\ p % 2 = 1 => <<h[p], h[p + 1]>> \in Exchanges

\* a reset was handled while a model call for the same full history was in
\* flight; the call succeeded afterwards and its exchange is all the history
\* holds, while another conversation still holds its twenty turns
C18_Witness ==
    \E i, j \in DOMAIN handlers :
        /\ i < j
        /\ answered(handlers[i])
        /\ isTextEventIn(handlers[j].event, {RESET_CMD, RESET_CMD_JA})
        /\ handlers[j].conversationId = handlers[i].conversationId
        /\ Len(Turns(conversationHistory, handlers[i].conversationId)) = 2
        /\ \E id \in DOMAIN conversationHistory :
               Len(conversationHistory[id]) = MAX_HISTORY_LENGTH

\* the turns of the exchanges of earlier requests
OldTurns == {Turn("user", Old), Turn("model", OldAnswer)}

\* C19: once the reset command of an invocation has run clearHistory(c), no
\* turn stored for c before the request is part of the history of c, in that
\* state and in every later one; a model call for c that was started before
\* the reset and succeeds after it leaves a history of its two turns alone.
C19_ResetForgetsOldTurns ==
    \A j \in DOMAIN handlers :
        (/\ handlers[j].pc # "start"
         /\ isTextEventIn(handlers[j].event, {RESET_CMD, RESET_CMD_JA})) =>
            LET c == handlers[j].conversationId
                h == Turns(conversationHistory, c)
            IN  /\ \A p \in DOMAIN h : h[p] \notin OldTurns
                /\ Len(h) = 2 * Cardinality(answeredFor(c))

\* a model call seeded with two old turns was started, the reset of the same
\* conversation was handled, the call succeeded, and both were replied to: the
\* history is the new exchange alone, another conversation keeps its old turns
C19_Witness ==
    \E i, j \in DOMAIN handlers :
        /\ i < j
        /\ isTextEventIn(handlers[j].event, {RESET_CMD, RESET_CMD_JA})
        /\ handlers[j].pc = "fulfilled"
        /\ handlers[i].pc = "fulfilled"
        /\ answered(handlers[i])
        /\ handlers[i].conversationId = handlers[j].conversationId
        /\ Turns(conversationHistory, handlers[i].conversationId) =
               <<Turn("user", handlers[i].event.message.text), Turn("model", <<"o", "k">>)>>
        /\ Turns(conversationHistory, "U1") = <<Turn("user", Old), Turn("model", OldAnswer)>>

-----------------------------------------------------------------------------
(* Properties of the replies *)

\* C20: an invocation for a plain text message has issued no replyMessage call
\* before its command is recognised or its model call is over, and exactly one
\* from then on, with its own reply token: the reset confirmation, the help
\* text, the model's answer or the apology; a failed reply, the answer's
\* included, is followed by no second reply. An invocation for any other event
\* issues none.
C20_ExactlyOneReply ==
    \A i \in DOMAIN handlers :
        LET h == handlers[i]
            plainText ==
                /\ h.event.type = "message"
                /\ h.event.message # Undefined
                /\ h.event.message.type = "text"
        IN  /\ ~plainText => h.replies = <<>>
            /\ plainText =>
                   /\ h.pc \in {"start", "awaitModel"} => h.replies = <<>>
                   /\ h.pc \in {"awaitReply", "fulfilled", "rejected"} =>
                          /\ Len(h.replies) = 1
                          /\ h.replies[1].replyToken = i
                          /\ h.replyToken = i
                          /\ \/ /\ h.event.message.text \in {RESET_CMD, RESET_CMD_JA}
                                /\ h.replies[1].messages = <<[type |-> "text", text |-> RESET_REPLY]>>
                             \/ /\ h.event.message.text \in {HELP_CMD, HELP_CMD_JA}
                                /\ h.replies[1].messages = <<[type |-> "text", text |-> HELP_REPLY]>>
                             \/ /\ h.modelCalls = 1
                                /\ h.modelFailed
                                /\ h.replies[1].messages = <<[type |-> "text", text |-> APOLOGY]>>
                             \/ /\ h.modelCalls = 1
                                /\ ~h.modelFailed
                                /\ \E a \in Answers :
                                       h.replies[1].messages = <<[type |-> "text", text |-> a]>>

\* the reply that carried the model's answer failed, next to an event of the
\* same request that is no text message: one reply and none
C20_Witness ==
    \E i, j \in DOMAIN handlers :
        /\ answered(handlers[i])
        /\ handlers[i].result = "ReplyError"
        /\ Len(handlers[i].replies) = 1
        /\ handlers[j].result \in {"null", "TypeError"}
        /\ handlers[j].replies = <<>>
        /\ response.status = "500"

====
